---------------------------- MODULE Spec2Model ----------------------------
(***************************************************************************)
(* A model of src/src/utils.js of content-scope-scripts: the exemption     *)
(* policy engine (exemptionLists, debug, initStringExemptionLists,         *)
(* shouldExemptUrl, shouldExemptMethod), the interception wrapper          *)
(* (DDGProxy's apply handler), the key iterator (iterateDataKey,           *)
(* nextRandom) and the property override helper (overrideProperty,         *)
(* defineProperty).                                                        *)
(*                                                                         *)
(* The specifications share the module: SpecExempt (policy engine and      *)
(* wrapper), SpecIter (nextRandom and iterateDataKey; SpecIterFair adds    *)
(* that a callback which returns lets the call go on) and SpecOverride     *)
(* (overrideProperty).  Each holds the other parts' variables constant.    *)
(***************************************************************************)
EXTENDS Integers, Sequences, FiniteSets, TLC

VARIABLES
    exemptionLists, \* utils.js:30, own properties of the module-level object
    debug,          \* utils.js:44
    last,           \* the last exported operation called, its inputs and outcome
    iter,           \* the running iterateDataKey call (locals and position)
    rnd,            \* the last direct nextRandom call
    host,           \* the object graph overrideProperty works on
    ovr             \* the last overrideProperty call

vars == <<exemptionLists, debug, last, iter, rnd, host, ovr>>

(***************************************************************************)
(* Bounds of the model.                                                    *)
(***************************************************************************)
MaxPatterns == 1   \* patterns per feature in one configuration mapping
MaxStack == 2      \* frames in a captured stack

(***************************************************************************)
(* Feature names.  ConfigFeatures are the keys configuration mappings use; *)
(* "constructor" is never configured but is a property every plain object  *)
(* inherits from Object.prototype (exemptionLists is created by {}).       *)
(***************************************************************************)
ConfigFeatures == {"gpc", "fingerprintingCanvas"}
FeatureNames == ConfigFeatures \cup {"constructor"}
ProxyFeatureNames == {"gpc", "fingerprinting-canvas", "constructor"}

(***************************************************************************)
(* Pattern strings and URLs.  RegexTest(p, u) is the value of              *)
(* new RegExp(p).test(u); a RegExp built without flags keeps no state      *)
(* between tests.  "(" is not a regular expression: new RegExp("(")        *)
(* throws a SyntaxError.                                                   *)
(***************************************************************************)
PatternStrings == {"broken-lib\\.js", "/other\\.js$", "("}
Urls == {"https://cdn.example.com/broken-lib.js",
         "https://cdn.example.com/other.js",
         "http://legacy.example.org/app.js"}

ValidPattern(p) == p # "("

RegexTest(p, u) ==
    CASE p = "broken-lib\\.js" -> u = "https://cdn.example.com/broken-lib.js"
      [] p = "/other\\.js$"    -> u = "https://cdn.example.com/other.js"
      [] OTHER                 -> FALSE

(***************************************************************************)
(* Stack frames, one in the format of Chrome, one in that of Firefox and   *)
(* one without a source location, and what                                 *)
(* line.match(/(\()?(http[^)]+):[0-9]+:[0-9]+(\))?/) extracts as res[2]    *)
(* ("" when the line does not match and res is null).                      *)
(***************************************************************************)
StackLines == {"    at brokenLib (https://cdn.example.com/broken-lib.js:10:5)",
               "main@https://cdn.example.com/other.js:3:1",
               "    at <anonymous>"}

LineMatch(line) ==
    CASE line = "    at brokenLib (https://cdn.example.com/broken-lib.js:10:5)"
              -> "https://cdn.example.com/broken-lib.js"
      [] line = "main@https://cdn.example.com/other.js:3:1"
              -> "https://cdn.example.com/other.js"
      [] OTHER -> ""

SeqsUpTo(S, n) == UNION {[1..k -> S] : k \in 0..n}

\* What `new Error().stack` yields in the page: a string (split into lines),
\* undefined, a value without split() (Error.prepareStackTrace returned a
\* non-string), or an exception raised while it is read.
Captures ==
    {[kind |-> "lines", lines |-> s] : s \in SeqsUpTo(StackLines, MaxStack)}
    \cup {[kind |-> k, lines |-> <<>>] : k \in {"undefined", "nonstring", "throws"}}

(***************************************************************************)
(* Property lookup on exemptionLists: own properties first, then           *)
(* Object.prototype.  Values are tagged: an array of compiled regular      *)
(* expressions, an inherited function (with its length), or undefined.     *)
(***************************************************************************)
ProtoNames == {"constructor"}

HasProperty(type) == type \in DOMAIN exemptionLists \/ type \in ProtoNames

GetProperty(type) ==
    IF type \in DOMAIN exemptionLists
    THEN [kind |-> "array", items |-> exemptionLists[type], length |-> Len(exemptionLists[type])]
    ELSE IF type \in ProtoNames
         THEN [kind |-> "function", items |-> <<>>, length |-> 1]
         ELSE [kind |-> "undefined", items |-> <<>>, length |-> 0]

\* new RegExp(stringExemption), for a valid pattern string
Compile(p) == [source |-> p, lastIndex |-> 0]

(***************************************************************************)
(* shouldExemptUrl (utils.js:35-42): "true", "false", or "throw" when the  *)
(* value looked up is not iterable.                                        *)
(***************************************************************************)
shouldExemptUrl(type, url) ==
    LET v == GetProperty(type) IN
    IF v.kind # "array" THEN "throw"
    ELSE IF \E k \in 1..v.length : RegexTest(v.items[k].source, url)
         THEN "true" ELSE "false"

(***************************************************************************)
(* shouldExemptMethod (utils.js:64-92).                                    *)
(***************************************************************************)
\* The for loop over errorLines (utils.js:74-87) from line i on; errorFiles
\* is the Set of paths already checked, tested the calls of shouldExemptUrl
\* made so far.
RECURSIVE ScanLinesNoSkip(_, _, _, _, _)
ScanLinesNoSkip(type, lines, i, errorFiles, tested) ==
    IF i > Len(lines) THEN [status |-> "end", tested |-> tested]
    ELSE LET path == LineMatch(lines[i]) IN
         IF path = "" THEN ScanLinesNoSkip(type, lines, i + 1, errorFiles, tested)
         ELSE LET r == shouldExemptUrl(type, path) IN
              IF r = "throw" THEN [status |-> "throw", tested |-> Append(tested, path)]
              ELSE IF r = "true" THEN [status |-> "true", tested |-> Append(tested, path)]
              ELSE ScanLinesNoSkip(type, lines, i + 1, errorFiles \cup {path},
                                   Append(tested, path))

RECURSIVE ScanLines(_, _, _, _, _)
ScanLines(type, lines, i, errorFiles, tested) ==
    IF i > Len(lines) THEN [status |-> "end", tested |-> tested]
    ELSE LET path == LineMatch(lines[i]) IN
         IF path = "" THEN ScanLines(type, lines, i + 1, errorFiles, tested)
         ELSE IF path \in errorFiles
              THEN ScanLines(type, lines, i + 1, errorFiles, tested)
         ELSE LET r == shouldExemptUrl(type, path) IN
              IF r = "throw" THEN [status |-> "throw", tested |-> Append(tested, path)]
              ELSE IF r = "true" THEN [status |-> "true", tested |-> Append(tested, path)]
              ELSE ScanLines(type, lines, i + 1, errorFiles \cup {path},
                             Append(tested, path))

\* The try block (utils.js:70-87) on a capture cap.
TryBlock(type, cap) ==
    IF cap.kind \in {"throws", "nonstring"}
    THEN [status |-> "throw", tested |-> <<>>]
    ELSE ScanLines(type, IF cap.kind = "undefined" THEN <<>> ELSE cap.lines,
                   1, {}, <<>>)

\* catch (e) { /* Fall through */ } and the return false after it
\* (utils.js:88-91), for a try block that ended t.
CatchRethrow(t) ==
    [outcome |-> IF t.status = "true" THEN "true"
                 ELSE IF t.status = "throw" THEN "throw" ELSE "false",
     captured |-> TRUE, failed |-> t.status = "throw", tested |-> t.tested]

AfterTry(t) ==
    [outcome |-> IF t.status = "true" THEN "true" ELSE "false",
     captured |-> TRUE, failed |-> t.status = "throw", tested |-> t.tested]

shouldExemptMethod(type, cap) ==
    IF ~HasProperty(type) \/ GetProperty(type).length = 0
    THEN [outcome |-> "false", captured |-> FALSE, failed |-> FALSE, tested |-> <<>>]
    ELSE AfterTry(TryBlock(type, cap))

(***************************************************************************)
(* initStringExemptionLists (utils.js:49-58).  A configuration mapping is  *)
(* a sequence of entries with distinct keys, in the order for...in visits  *)
(* them.                                                                   *)
(***************************************************************************)
PatternLists == SeqsUpTo(PatternStrings, MaxPatterns)

Entries == [type : ConfigFeatures, patterns : PatternLists]

Mappings ==
    {m \in SeqsUpTo(Entries, Cardinality(ConfigFeatures)) :
        \A a, b \in 1..Len(m) : a # b => m[a].type # m[b].type}

MappingKeys(m) == {m[a].type : a \in 1..Len(m)}

\* The inner loop (utils.js:54-56): the regular expressions pushed before
\* the first pattern that new RegExp rejects, and whether one was rejected.
RECURSIVE PushCompiled(_, _, _)
PushCompiled(patterns, k, acc) ==
    IF k > Len(patterns) THEN [items |-> acc, ok |-> TRUE]
    ELSE IF ~ValidPattern(patterns[k]) THEN [items |-> acc, ok |-> FALSE]
    ELSE PushCompiled(patterns, k + 1, Append(acc, Compile(patterns[k])))

SetProperty(lists, type, value) ==
    [t \in DOMAIN lists \cup {type} |-> IF t = type THEN value ELSE lists[t]]

\* The outer loop (utils.js:52-57) from entry a on.
RECURSIVE ConfigureFrom(_, _, _)
ConfigureFrom(lists, m, a) ==
    IF a > Len(m) THEN [lists |-> lists, outcome |-> "return"]
    ELSE LET c == PushCompiled(m[a].patterns, 1, <<>>)
             next == SetProperty(lists, m[a].type, c.items)
         IN IF c.ok THEN ConfigureFrom(next, m, a + 1)
            ELSE [lists |-> next, outcome |-> "throw"]

initStringExemptionLists(args) ==
    LET r == ConfigureFrom(exemptionLists, args.stringExemptionLists, 1) IN
    /\ debug' = args.debug
    /\ exemptionLists' = r.lists
    /\ last' = [op |-> "initStringExemptionLists", args |-> args,
                outcome |-> r.outcome]

(***************************************************************************)
(* DDGProxy (utils.js:228-281).                                            *)
(***************************************************************************)
\* camelcase (utils.js:186-190): dashCaseText.replace(/-(.)/g, upper-case)
camelcase(dashCaseText) ==
    CASE dashCaseText = "fingerprinting-canvas" -> "fingerprintingCanvas"
      [] OTHER -> dashCaseText

\* What can go wrong while the debug record is built and posted
\* (utils.js:244-250, 288-291): document.location.href raises,
\* JSON.stringify(args[2]) raises (a cyclic or BigInt argument), or
\* globalObj.postMessage raises.  Reading new Error().stack raises exactly
\* when the capture of this call does.
DebugFaults == {"none", "documentUrl", "args", "post"}

\* How the callable that is forwarded to behaves.
CalleeBehaviours == {"return", "throw"}

\* The apply handler (utils.js:241-257) of a proxy whose camelFeatureName is
\* type, in an environment (cap, fault, callee).
outputHandler(type, cap, fault, callee) ==
    LET m == shouldExemptMethod(type, cap)
        isExempt == m.outcome = "true"
        debugRaises == debug /\ (fault # "none" \/ cap.kind = "throws")
        base == [op |-> "invoke", type |-> type, cap |-> cap, fault |-> fault,
                 debug |-> debug, checkFailed |-> m.failed,
                 isExempt |-> isExempt, posted |-> FALSE,
                 nativeCalls |-> 0, substituteCalls |-> 0, outcome |-> "exemptionError"]
    IN IF m.outcome = "throw" THEN base
       ELSE IF debugRaises THEN [base EXCEPT !.outcome = "debugError"]
       ELSE IF isExempt
            THEN [base EXCEPT !.posted = debug, !.nativeCalls = 1,
                              !.outcome = IF callee = "return" THEN "nativeResult"
                                          ELSE "nativeError"]
            ELSE [base EXCEPT !.posted = debug, !.substituteCalls = 1,
                              !.outcome = IF callee = "return" THEN "substituteResult"
                                          ELSE "substituteError"]

(***************************************************************************)
(* The policy engine and the wrapper as a state machine.                   *)
(***************************************************************************)
NoCall == [op |-> "none"]

IdleIter == [pc |-> "idle"]
IdleRnd == [op |-> "none"]
IdleHost == [op |-> "none"]

ExemptInit ==
    /\ exemptionLists = <<>>
    /\ debug = FALSE
    /\ last = NoCall
    /\ iter = IdleIter
    /\ rnd = IdleRnd
    /\ host = IdleHost
    /\ ovr = NoCall

\* Execution is single-threaded and every operation runs to completion: an
\* operation starts only when no call is in flight (last is NoCall), and
\* Return hands its outcome back to the caller.
Configure ==
    \E d \in BOOLEAN, m \in Mappings :
        /\ last = NoCall
        /\ initStringExemptionLists([debug |-> d, stringExemptionLists |-> m])
        /\ UNCHANGED <<iter, rnd, host, ovr>>

CallShouldExemptUrl ==
    \E type \in FeatureNames, url \in Urls :
        /\ last = NoCall
        /\ last' = [op |-> "shouldExemptUrl", type |-> type, url |-> url,
                    outcome |-> shouldExemptUrl(type, url)]
        /\ UNCHANGED <<exemptionLists, debug, iter, rnd, host, ovr>>

CallShouldExemptMethod ==
    \E type \in FeatureNames, cap \in Captures :
        /\ last = NoCall
        /\ last' = [op |-> "shouldExemptMethod", type |-> type, cap |-> cap,
                    result |-> shouldExemptMethod(type, cap)]
        /\ UNCHANGED <<exemptionLists, debug, iter, rnd, host, ovr>>

Invoke ==
    \E featureName \in ProxyFeatureNames, cap \in Captures,
       fault \in DebugFaults, callee \in CalleeBehaviours :
        /\ last = NoCall
        /\ debug \/ fault = "none"     \* no record is built without the flag
        /\ last' = outputHandler(camelcase(featureName), cap, fault, callee)
        /\ UNCHANGED <<exemptionLists, debug, iter, rnd, host, ovr>>

Return ==
    /\ last # NoCall
    /\ last' = NoCall
    /\ UNCHANGED <<exemptionLists, debug, iter, rnd, host, ovr>>

ExemptNext ==
    Configure \/ CallShouldExemptUrl \/ CallShouldExemptMethod \/ Invoke \/ Return

SpecExempt == ExemptInit /\ [][ExemptNext]_vars

(***************************************************************************)
(* 32-bit integers.  JavaScript's bitwise operators convert their operands *)
(* to signed 32-bit integers (ToInt32), take shift counts modulo 32 and    *)
(* yield signed 32-bit integers.  An Int32 is its value, MinInt32..MaxInt32.*)
(***************************************************************************)
MaxInt32 == 2147483647
MinInt32 == (-MaxInt32) - 1

\* Bit k (0..31) of the two's complement representation of x.
Bit(x, k) ==
    IF k = 31 THEN (IF x < 0 THEN 1 ELSE 0)
    ELSE LET low31 == IF x >= 0 THEN x ELSE (x + MaxInt32) + 1
         IN (low31 \div (2 ^ k)) % 2

RECURSIVE SumBits(_, _)
SumBits(f, k) == IF k < 0 THEN 0 ELSE f[k] * (2 ^ k) + SumBits(f, k - 1)

\* The Int32 whose bits are f[0..31].
FromBits(f) ==
    IF f[31] = 1 THEN (SumBits(f, 30) - MaxInt32) - 1 ELSE SumBits(f, 30)

Shr32(x, n) ==       \* x >> n
    FromBits([k \in 0..31 |-> Bit(x, IF k + (n % 32) > 31 THEN 31 ELSE k + (n % 32))])
Shl32(x, n) ==       \* x << n
    FromBits([k \in 0..31 |-> IF k >= n % 32 THEN Bit(x, k - (n % 32)) ELSE 0])
Xor32(x, y) ==       \* x ^ y
    FromBits([k \in 0..31 |-> (Bit(x, k) + Bit(y, k)) % 2])
And32(x, y) ==       \* x & y
    FromBits([k \in 0..31 |-> Bit(x, k) * Bit(y, k)])
Or32(x, y) ==        \* x | y
    FromBits([k \in 0..31 |-> IF Bit(x, k) + Bit(y, k) > 0 THEN 1 ELSE 0])
Not32(x) ==          \* ~x
    FromBits([k \in 0..31 |-> 1 - Bit(x, k)])

(***************************************************************************)
(* Numbers.  A number is NaN or a 64-bit two's complement integer, kept as *)
(* two 32-bit halves: its value is hi * 2^32 + (lo mod 2^32).  The 63-bit  *)
(* unsigned values are those with hi in 0..MaxInt32.                       *)
(***************************************************************************)
NaN == [nan |-> TRUE, hi |-> 0, lo |-> 0]
FromInt32(x) == [nan |-> FALSE, hi |-> IF x < 0 THEN -1 ELSE 0, lo |-> x]
ToInt32(v) == IF v.nan THEN 0 ELSE v.lo
IsNonNegative(v) == ~v.nan /\ v.hi >= 0

\* Math.abs of an Int32, a number: Math.abs(-2^31) is 2^31, which is no Int32.
MathAbs(x) ==
    IF x >= 0 THEN FromInt32(x)
    ELSE IF x = MinInt32 THEN [nan |-> FALSE, hi |-> 0, lo |-> MinInt32]
    ELSE FromInt32(-x)

\* The operand of Math.abs in nextRandom (utils.js:27).
Lfsr(v) ==
    Or32(Shr32(ToInt32(v), 1),
         And32(Xor32(Shl32(ToInt32(v), 62), Shl32(ToInt32(v), 61)),
               Shl32(Not32(Shl32(Not32(0), 63)), 62)))

nextRandomNoAbs(v) == FromInt32(Lfsr(v))

\* nextRandom (utils.js:26-28)
nextRandom(v) == MathAbs(Lfsr(v))

(***************************************************************************)
(* iterateDataKey (utils.js:99-117).  A key is a sequence of UTF-16 code   *)
(* units; for...in visits its indices 0..length-1 (String.prototype has no *)
(* enumerable property).  iter holds the locals of the call in flight: i (the 0-based     *)
(* index for...in is at), j, item, byte, and counts the callback's         *)
(* invocations; stoppedAt is the invocation that returned null (0: none).  *)
(***************************************************************************)
MaxKeyLen == 2
MaxSmall == 8
FirstBit == 8      \* utils.js:103, let j = 8

CharCodes == {97, 98, 65535}
Keys == SeqsUpTo(CharCodes, MaxKeyLen)

\* key.charCodeAt(i), 0-based: NaN past the end
charCodeAt(key, i) == IF i < Len(key) THEN FromInt32(key[i + 1]) ELSE NaN

\* The callback returned null (utils.js:106-108).
StopBreaksInnerLoop(it) ==
    IF it.i + 1 >= Len(it.key) THEN [it EXCEPT !.pc = "done"]
    ELSE [it EXCEPT !.i = it.i + 1, !.j = FirstBit,
                    !.byte = ToInt32(charCodeAt(it.key, it.i + 1))]

OnStop(it) == [it EXCEPT !.pc = "done"]

\* The callback returned something else (utils.js:110-115), then j-- and the
\* loop conditions, up to the next invocation of the callback or the end.
OnContinue(it) ==
    LET item == nextRandom(it.item)
        byte == Shr32(it.byte, 1)
    IN IF it.j - 1 >= 0
       THEN [it EXCEPT !.item = item, !.byte = byte, !.j = it.j - 1]
       ELSE IF it.i + 1 >= Len(it.key)
            THEN [it EXCEPT !.item = item, !.byte = byte, !.j = it.j - 1, !.pc = "done"]
            ELSE [it EXCEPT !.item = item, !.j = FirstBit, !.i = it.i + 1,
                            !.byte = ToInt32(charCodeAt(it.key, it.i + 1))]

\* The call, up to the first invocation of the callback or the end.
IterateDataKey ==
    \E key \in Keys :
        /\ iter = IdleIter
        /\ rnd = IdleRnd
        /\ iter' = [pc |-> IF Len(key) = 0 THEN "done" ELSE "call",
                    key |-> key, i |-> 0, j |-> FirstBit,
                    item |-> charCodeAt(key, 0),
                    byte |-> ToInt32(charCodeAt(key, 0)),
                    calls |-> 0, stoppedAt |-> 0]
        /\ UNCHANGED <<exemptionLists, debug, last, rnd, host, ovr>>

\* One invocation of callback(item, byte) and what follows it.
CallbackStep ==
    /\ iter.pc = "call"
    /\ \E res \in {"null", "other"} :
          iter' = IF res = "null"
                  THEN OnStop([iter EXCEPT !.calls = iter.calls + 1,
                                           !.stoppedAt = iter.calls + 1])
                  ELSE OnContinue([iter EXCEPT !.calls = iter.calls + 1])
    /\ UNCHANGED <<exemptionLists, debug, last, rnd, host, ovr>>

IterReturn ==
    /\ iter.pc = "done"
    /\ iter' = IdleIter
    /\ UNCHANGED <<exemptionLists, debug, last, rnd, host, ovr>>

\* The 63-bit unsigned inputs nextRandom is called on directly.
LoWords ==
    (0..MaxSmall) \cup {2 ^ k : k \in 0..30} \cup {(2 ^ k) - 1 : k \in 0..30}
    \cup {-(2 ^ k) : k \in 0..30} \cup {MinInt32, MaxInt32, MaxInt32 - 1}
HiWords == {0, 1, MaxInt32}
Inputs63 == [nan : {FALSE}, hi : HiWords, lo : LoWords]

CallNextRandom ==
    \E v \in Inputs63 :
        /\ iter = IdleIter
        /\ rnd = IdleRnd
        /\ rnd' = [op |-> "nextRandom", v |-> v, result |-> nextRandom(v)]
        /\ UNCHANGED <<exemptionLists, debug, last, iter, host, ovr>>

RndReturn ==
    /\ rnd # IdleRnd
    /\ rnd' = IdleRnd
    /\ UNCHANGED <<exemptionLists, debug, last, iter, host, ovr>>

IterInit == ExemptInit

IterNext == IterateDataKey \/ CallbackStep \/ IterReturn \/ CallNextRandom \/ RndReturn

SpecIter == IterInit /\ [][IterNext]_vars

\* A callback that returns lets the call go on: iterateDataKey runs to
\* completion on the calling thread.
SpecIterFair == SpecIter /\ WF_vars(CallbackStep)

(***************************************************************************)
(* overrideProperty and defineProperty (utils.js:132-181).  host holds     *)
(* hasMozProxies (utils.js:9) and the object prop.object refers to: null,  *)
(* or an object with an extensible flag and, per property name, no own     *)
(* property, a data property or an accessor property.                      *)
(***************************************************************************)
PropNames == {"availTop", "deviceMemory"}
Values == {"undefined", "null", "0", "8"}

Absent == [kind |-> "absent", value |-> "undefined", configurable |-> FALSE]
DataProperty(v, c) == [kind |-> "data", value |-> v, configurable |-> c]
\* An accessor property whose getter returns v
AccessorProperty(v, c) == [kind |-> "accessor", value |-> v, configurable |-> c]

InitialDescriptors ==
    {Absent} \cup {DataProperty("0", c) : c \in BOOLEAN}
             \cup {AccessorProperty("0", c) : c \in BOOLEAN}

Objects ==
    {[kind |-> "null", extensible |-> FALSE, props |-> [n \in PropNames |-> Absent]]}
    \cup [kind : {"object"}, extensible : BOOLEAN,
          props : [PropNames -> InitialDescriptors]]

\* Object.defineProperty(object, propertyName, {get}) with a getter that
\* returns target and is a new function on every call: what
\* ValidateAndApplyPropertyDescriptor does with a descriptor that has only
\* a get field.
ObjectDefineProperty(object, propertyName, target) ==
    IF object.kind = "null" THEN [raised |-> TRUE, object |-> object]
    ELSE LET current == object.props[propertyName] IN
         IF current.kind = "absent"
         THEN IF ~object.extensible THEN [raised |-> TRUE, object |-> object]
              ELSE [raised |-> FALSE,
                    object |-> [object EXCEPT !.props[propertyName] =
                                    AccessorProperty(target, FALSE)]]
         ELSE IF ~current.configurable THEN [raised |-> TRUE, object |-> object]
              ELSE [raised |-> FALSE,
                    object |-> [object EXCEPT !.props[propertyName] =
                                    AccessorProperty(target, TRUE)]]

\* defineProperty (utils.js:159-181).  With hasMozProxies the descriptor is
\* rebuilt in the page's compartment first (wrappedJSObject, cloneInto,
\* exportFunction), which raises when xrayFault is set, and the property is
\* then defined on object.wrappedJSObject, the same object seen from the
\* page.
defineProperty(h, propertyName, target, xrayFault) ==
    IF h.hasMozProxies
    THEN IF h.object.kind = "null" \/ xrayFault
         THEN [raised |-> TRUE, object |-> h.object]
         ELSE ObjectDefineProperty(h.object, propertyName, target)
    ELSE ObjectDefineProperty(h.object, propertyName, target)

\* overrideProperty (utils.js:132-152) on prop = {object: h.object,
\* origValue, targetValue}.
overridePropertyNoCatch(h, name, origValue, targetValue, xrayFault) ==
    IF origValue # "undefined"
    THEN LET d == defineProperty(h, name, targetValue, xrayFault) IN
         [outcome |-> IF d.raised THEN "throw" ELSE "return",
          ret |-> IF d.raised THEN "undefined" ELSE origValue,
          attempted |-> TRUE, raised |-> d.raised, object |-> d.object]
    ELSE [outcome |-> "return", ret |-> origValue, attempted |-> FALSE,
          raised |-> FALSE, object |-> h.object]

overrideProperty(h, name, origValue, targetValue, xrayFault) ==
    IF origValue # "undefined"
    THEN LET d == defineProperty(h, name, targetValue, xrayFault) IN
         [outcome |-> "return", ret |-> origValue, attempted |-> TRUE,
          raised |-> d.raised, object |-> d.object]
    ELSE [outcome |-> "return", ret |-> origValue, attempted |-> FALSE,
          raised |-> FALSE, object |-> h.object]

OverrideInit ==
    /\ exemptionLists = <<>>
    /\ debug = FALSE
    /\ last = NoCall
    /\ iter = IdleIter
    /\ rnd = IdleRnd
    /\ host \in [hasMozProxies : BOOLEAN, object : Objects]
    /\ ovr = NoCall

CallOverrideProperty ==
    \E name \in PropNames, origValue \in Values, targetValue \in Values,
       xrayFault \in BOOLEAN :
        /\ ovr = NoCall
        /\ host.hasMozProxies \/ ~xrayFault
        /\ LET r == overrideProperty(host, name, origValue, targetValue, xrayFault) IN
           /\ host' = [host EXCEPT !.object = r.object]
           /\ ovr' = [op |-> "overrideProperty", name |-> name,
                      origValue |-> origValue, targetValue |-> targetValue,
                      before |-> host.object, outcome |-> r.outcome, ret |-> r.ret,
                      attempted |-> r.attempted, raised |-> r.raised]
        /\ UNCHANGED <<exemptionLists, debug, last, iter, rnd>>

OverrideReturn ==
    /\ ovr # NoCall
    /\ ovr' = NoCall
    /\ UNCHANGED <<exemptionLists, debug, last, iter, rnd, host>>

OverrideNext == CallOverrideProperty \/ OverrideReturn

SpecOverride == OverrideInit /\ [][OverrideNext]_vars

(***************************************************************************)
(* The claims.                                                             *)
(***************************************************************************)
\* The exemption list a configuration mapping m describes.
Compiled(m) ==
    [t \in MappingKeys(m) |->
        LET a == CHOOSE a \in 1..Len(m) : m[a].type = t
        IN [k \in 1..Len(m[a].patterns) |-> Compile(m[a].patterns[k])]]

\* C1: after a configure call the exemption list is exactly what that call's
\* mapping compiles to, and a feature absent from that mapping has no
\* exemptions any more: shouldExemptUrl is true for no URL and
\* shouldExemptMethod for no stack.
C1_ReconfigureReplaces ==
    (last.op = "initStringExemptionLists" /\ last.outcome = "return") =>
        /\ \A f \in MappingKeys(last.args.stringExemptionLists) :
              /\ f \in DOMAIN exemptionLists
              /\ exemptionLists[f] = Compiled(last.args.stringExemptionLists)[f]
        /\ \A f \in FeatureNames \ MappingKeys(last.args.stringExemptionLists) :
              /\ \A u \in Urls : shouldExemptUrl(f, u) # "true"
              /\ \A cap \in Captures : shouldExemptMethod(f, cap).outcome # "true"

\* C2: shouldExemptUrl returns false, and raises nothing, for every feature
\* name that is absent from the exemption mapping and every URL.
C2_UnknownFeatureIsNotExempt ==
    (last.op = "shouldExemptUrl" /\ last.type \notin DOMAIN exemptionLists) =>
        last.outcome = "false"

\* C3: every invocation of the wrapper invokes exactly one of the two
\* callables, the native one exactly when shouldExemptMethod was true, and
\* returns what that callable returned.
C3_ExactlyOneCallable ==
    last.op = "invoke" =>
        /\ last.nativeCalls + last.substituteCalls = 1
        /\ last.nativeCalls = 1 <=> last.isExempt
        /\ last.outcome \in (IF last.isExempt THEN {"nativeResult", "nativeError"}
                             ELSE {"substituteResult", "substituteError"})

\* C4: with the debug flag set, a failure while the debug record is built
\* or posted does not fail the intercepted call: a callable is still
\* invoked and its result is the wrapper's.
C4_DebugFailureIsHarmless ==
    (/\ last.op = "invoke"
     /\ last.debug
     /\ (last.fault # "none" \/ last.cap.kind = "throws")) =>
        /\ last.nativeCalls + last.substituteCalls = 1
        /\ last.outcome # "debugError"

\* C5: shouldExemptMethod returns false without capturing the stack whenever
\* the feature has no configured pattern: it is absent from the mapping or
\* mapped to an empty sequence.
C5_ShortCircuit ==
    (/\ last.op = "shouldExemptMethod"
     /\ (last.type \notin DOMAIN exemptionLists
         \/ Len(exemptionLists[last.type]) = 0)) =>
        /\ last.result.outcome = "false"
        /\ ~last.result.captured

C7_Counts ==
    /\ iter.pc = "done" =>
          IF iter.stoppedAt = 0
          THEN iter.calls = (FirstBit + 1) * Len(iter.key)
          ELSE /\ iter.calls = iter.stoppedAt
               /\ iter.stoppedAt \in 1..((FirstBit + 1) * Len(iter.key))
    /\ iter.pc = "call" => iter.calls < (FirstBit + 1) * Len(iter.key)

\* C7, as checked: the counts above hold in every state, and a call that has
\* reached the callback ends (the callback returning every time).
C7_IterateTerminates ==
    /\ []C7_Counts
    /\ (iter.pc = "call") ~> (iter.pc = "done")

C7_Witness ==
    /\ iter.pc = "done"
    /\ Len(iter.key) = 2
    /\ iter.stoppedAt = 5
    /\ iter.calls = 5

C9_NextRandomNonNegative ==
    /\ rnd.op = "nextRandom" =>
          /\ IsNonNegative(rnd.result)
          /\ rnd.result.lo \in MinInt32..MaxInt32
    /\ (iter.pc \in {"call", "done"} /\ iter.calls > 0) => IsNonNegative(iter.item)

C9_Witness ==
    /\ rnd.op = "nextRandom"
    /\ rnd.v.hi = MaxInt32
    /\ rnd.v.lo = -1
    /\ IsNonNegative(rnd.result)

\* The paths the frames of a stack carry, each once, in the order of their
\* first frame.
RECURSIVE DistinctPaths(_, _, _)
DistinctPaths(lines, i, acc) ==
    IF i > Len(lines) THEN acc
    ELSE LET path == LineMatch(lines[i]) IN
         IF path = "" \/ \E k \in 1..Len(acc) : acc[k] = path
         THEN DistinctPaths(lines, i + 1, acc)
         ELSE DistinctPaths(lines, i + 1, Append(acc, path))

IsPrefix(s, t) == Len(s) <= Len(t) /\ \A k \in 1..Len(s) : s[k] = t[k]

\* C10: for a feature with at least one pattern and a captured stack,
\* shouldExemptMethod is true exactly when shouldExemptUrl is true of a path
\* extracted from some frame; the frames are scanned in stack order, each
\* distinct path is tested at most once, and the result is the one a scan
\* that tests every frame gives.
C10_ExemptIffSomeFrameExempt ==
    (/\ last.op = "shouldExemptMethod"
     /\ last.type \in DOMAIN exemptionLists
     /\ last.cap.kind \in {"lines", "undefined"}) =>
        (Len(exemptionLists[last.type]) > 0 =>
            /\ last.result.captured
            /\ last.result.outcome = "true" <=>
                  \E k \in 1..Len(last.cap.lines) :
                      /\ LineMatch(last.cap.lines[k]) # ""
                      /\ shouldExemptUrl(last.type, LineMatch(last.cap.lines[k])) = "true"
            /\ IsPrefix(last.result.tested, DistinctPaths(last.cap.lines, 1, <<>>))
            /\ last.result.outcome =
                  AfterTry(ScanLinesNoSkip(last.type, last.cap.lines, 1, {}, <<>>)).outcome)

C10_Witness ==
    /\ last.op = "shouldExemptMethod"
    /\ last.type \in DOMAIN exemptionLists
    /\ last.cap.kind = "lines"
    /\ Len(last.cap.lines) = 2
    /\ LineMatch(last.cap.lines[1]) # ""
    /\ LineMatch(last.cap.lines[1]) = LineMatch(last.cap.lines[2])
    /\ last.result.outcome = "false"
    /\ Len(last.result.tested) = 1

=============================================================================
